---- MODULE Spec2Model ----
(***************************************************************************)
(* Model of utils/pywifes_utils.py: extract_stellar_spectra_ascii and      *)
(* make_extracted_stellar_cube, run over a small file system.              *)
(*                                                                         *)
(* Python strings are sequences of one-character strings, so that          *)
(* str.replace, str.split, str.endswith and the "in" substring test are    *)
(* computed character by character, as the interpreter does.               *)
(***************************************************************************)
EXTENDS Integers, Sequences, FiniteSets, TLC

\* ------------------------------------------------------------- bounds
\* At most MaxFiles files exist below root/night before the first run.
MaxFiles == 3
\* At most MaxRuns calls of the two entry points are made in a behaviour.
MaxRuns == 2

\* ------------------------------------------------------------- strings
RECURSIVE Replace(_, _, _)
\* str.replace(old, new): leftmost non-overlapping occurrences (old # "").
Replace(s, old, new) ==
  IF Len(s) < Len(old) THEN s
  ELSE IF SubSeq(s, 1, Len(old)) = old
       THEN new \o Replace(SubSeq(s, Len(old) + 1, Len(s)), old, new)
       ELSE <<s[1]>> \o Replace(SubSeq(s, 2, Len(s)), old, new)

RECURSIVE Split(_, _)
\* str.split(c) for a one-character separator c: the list of fields.
Split(s, c) ==
  IF \A i \in 1..Len(s) : s[i] # c THEN <<s>>
  ELSE LET i == CHOOSE k \in 1..Len(s) :
                   s[k] = c /\ \A j \in 1..(k - 1) : s[j] # c
       IN  <<SubSeq(s, 1, i - 1)>> \o Split(SubSeq(s, i + 1, Len(s)), c)

\* str.endswith(suf)
EndsWith(s, suf) ==
  /\ Len(suf) <= Len(s)
  /\ SubSeq(s, Len(s) - Len(suf) + 1, Len(s)) = suf

\* str.startswith(pre)
StartsWith(s, pre) == Len(pre) <= Len(s) /\ SubSeq(s, 1, Len(pre)) = pre

\* sub in s
Contains(s, sub) ==
  \E i \in 1..(Len(s) - Len(sub) + 1) : SubSeq(s, i, i + Len(sub) - 1) = sub

\* os.path.join(a, b) for a relative b
Join(a, b) == a \o <<"/">> \o b

\* the last path component (what os.walk yields as name)
Basename(p) == LET parts == Split(p, "/") IN parts[Len(parts)]

\* ------------------------------------------------------------- literals
DOTFITS == <<".", "f", "i", "t", "s">>
DOTDAT == <<".", "d", "a", "t">>
T2m3wr == <<"T", "2", "m", "3", "w", "r">>
T2m3wb == <<"T", "2", "m", "3", "w", "b">>
ASCII == <<"a", "s", "c", "i", "i">>
EXTRACTED == <<"e", "x", "t", "r", "a", "c", "t", "e", "d", "_",
               "c", "u", "b", "e", "s", "_", "1", "d">>
S08 == <<"0", "8">>
S09 == <<"0", "9">>

\* ------------------------------------------------------------- inputs
\* The arguments root and night of both entry points.
root == <<"r">>
night == <<"N">>
data_dir == Join(root, night)

\* The step lists a call may be given (the default is 08, 09, 10).
StepLists == { <<S08>>, <<S08, S09>>, <<S09, S08>> }

\* A reduced frame on disk: its primary header, its pixel data (an
\* identifier), and whether ps.read_and_find_star_p08 /
\* ps.weighted_extract_spectrum succeed on it.
Frame(obj, run, id, good) ==
  [kind |-> "frame", header |-> [OBJNAME |-> obj, RUN |-> run],
   data |-> id, ok |-> good]

HD == <<"H", " ", "D">>
OX == <<"X">>

InA(name) == Join(Join(data_dir, <<"a">>), name)

\* The files that may lie below root/night before the first run.
Universe ==
  { \* exposure 1, red arm, both steps reduced
    [path |-> InA(T2m3wr \o <<"-", "1", ".", "p">> \o S08 \o DOTFITS),
     file |-> Frame(HD, 1, 11, TRUE)],
    [path |-> InA(T2m3wr \o <<"-", "1", ".", "p">> \o S09 \o DOTFITS),
     file |-> Frame(HD, 1, 12, TRUE)],
    \* exposure 2 of the same object on the same arm; its p09 frame is
    \* one the extraction routine raises on
    [path |-> InA(T2m3wr \o <<"-", "2", ".", "p">> \o S08 \o DOTFITS),
     file |-> Frame(HD, 2, 21, TRUE)],
    [path |-> InA(T2m3wr \o <<"-", "2", ".", "p">> \o S09 \o DOTFITS),
     file |-> Frame(HD, 2, 22, FALSE)],
    \* exposure 3, blue arm, only p08 reduced
    [path |-> InA(T2m3wb \o <<"-", "3", ".", "p">> \o S08 \o DOTFITS),
     file |-> Frame(OX, 3, 31, TRUE)],
    \* exposure 4: a name with neither arm marker
    [path |-> InA(<<"x", "-", "4", ".", "p">> \o S08 \o DOTFITS),
     file |-> Frame(OX, 4, 41, TRUE)],
    \* exposure 5: a name with both arm markers
    [path |-> InA(T2m3wr \o T2m3wb \o <<"-", "5", ".", "p">> \o S08 \o DOTFITS),
     file |-> Frame(OX, 5, 51, TRUE)],
    \* exposure 6 lies directly in root/night
    [path |-> Join(data_dir, T2m3wr \o <<"-", "6", ".", "p">> \o S08 \o DOTFITS),
     file |-> Frame(OX, 6, 61, TRUE)],
    \* exposure 7 lies two directories below root/night
    [path |-> Join(Join(Join(data_dir, <<"a">>), <<"b">>),
                   T2m3wb \o <<"-", "7", ".", "p">> \o S08 \o DOTFITS),
     file |-> Frame(HD, 7, 71, TRUE)],
    \* a raw frame of exposure number 0008: ends in 08.fits, not in .p08.fits
    [path |-> InA(T2m3wr \o <<"-", "0", "0">> \o S08 \o DOTFITS),
     file |-> Frame(OX, 8, 81, TRUE)],
    \* a file without any dot in its path
    [path |-> Join(data_dir, <<"R", "E", "A", "D", "M", "E">>),
     file |-> [kind |-> "other"]] }

\* ------------------------------------------------------------- state
VARIABLES
  fs,               \* the files on disk: path -> content
  dirs,             \* the directories the two entry points create
  steps,            \* the steps argument of the calls
  pc,               \* "idle", or the entry point that is running
  unique_obs,       \* make_extracted_stellar_cube: keys still to process
  output_filename,  \* make_extracted_stellar_cube: its local of that name
  walk,             \* extract_stellar_spectra_ascii: files still to visit
  filename,         \* extract_stellar_spectra_ascii: its local of that name
  call,             \* the entry point running or last run ("none" at first)
  found,            \* the files the running (or last) call discovered
  log,              \* the loop iterations of that call, one entry each
  status,           \* how the last call ended: "none", "returned", "raised"
  prev,             \* what the call before that one left behind
  runs              \* calls made so far

vars == <<fs, dirs, steps, pc, unique_obs, output_filename, walk, filename,
          call, found, log, status, prev, runs>>

\* A local variable that has not been assigned yet.
Unbound == <<"<", "u", "n", "b", "o", "u", "n", "d", ">">>

\* All orders in which a listing may return the set S.
Orders(S) ==
  { s \in [1..Cardinality(S) -> S] :
      \A i, j \in 1..Cardinality(S) : i # j => s[i] # s[j] }

\* The path below data_dir, as a list of components (<<>> if p is not below).
Below(p) ==
  IF StartsWith(p, data_dir \o <<"/">>)
  THEN Split(SubSeq(p, Len(data_dir) + 2, Len(p)), "/")
  ELSE <<>>

\* ------------------------------------------------- reading FITS files
\* fits.getheader / fits.open succeed on p
Readable(files, p) ==
  p \in DOMAIN files /\ files[p].kind \in {"frame", "cube"}

\* the primary header of p
Header(files, p) ==
  IF files[p].kind = "frame" THEN files[p].header ELSE files[p].hdus[1].header

\* ps.read_and_find_star_p08 and ps.weighted_extract_spectrum succeed on p
Extractable(files, p) ==
  p \in DOMAIN files /\ files[p].kind = "frame" /\ files[p].ok

\* the (wave, spectrum, sig) extracted from p
Spectrum(files, p) == files[p].data

\* ------------------------------------- make_extracted_stellar_cube
cube_out_dir == Join(data_dir, EXTRACTED)

\* ".p%s.fits" % step
Suffix(step) == <<".", "p">> \o step \o DOTFITS

\* glob.glob(os.path.join(data_dir, "*", "*%s.fits" % steps[0])): the files
\* exactly one directory below data_dir whose name ends in <step>.fits; a
\* "*" matches no name that starts with a dot.
Glob(files, step) ==
  { p \in DOMAIN files :
      LET c == Below(p)
      IN  /\ Len(c) = 2
          /\ ~StartsWith(c[1], <<".">>)
          /\ ~StartsWith(c[2], <<".">>)
          /\ EndsWith(c[2], step \o DOTFITS) }

\* ob.replace(".p%s.fits" % steps[0], "")
KeyOf(f, step) == Replace(f, Suffix(step), <<>>)

\* [ob + ".p%s.fits" % step for step in steps]
FitsFiles(ob, stps) == [i \in 1..Len(stps) |-> ob \o Suffix(stps[i])]

\* header['OBJNAME'].replace(" ", "")
ObjId(header) == Replace(header.OBJNAME, <<" ">>, <<>>)

\* Hdus with every table tagged with the first step.
HdusTagFirst(files, fits_files, stps) ==
  <<[header |-> Header(files, fits_files[1])]>> \o
  [i \in 1..Len(stps) |->
     [rec |-> Spectrum(files, fits_files[i]), REDSTEP |-> stps[1]]]

\* The HDU list: the primary HDU with the header of the first file, then
\* one table per (fits_file, step) of zip(fits_files, steps), tagged REDSTEP.
Hdus(files, fits_files, stps) ==
  <<[header |-> Header(files, fits_files[1])]>> \o
  [i \in 1..Len(stps) |->
     [rec |-> Spectrum(files, fits_files[i]), REDSTEP |-> stps[i]]]

\* The if / elif on the arm marker: with neither marker in ob the local
\* keeps the value it had (that of the previous iteration, or none).
OutputFilename(before, ob, obj_id) ==
  IF Contains(ob, T2m3wr)
  THEN night \o <<"_">> \o obj_id \o <<"_", "r">> \o DOTFITS
  ELSE IF Contains(ob, T2m3wb)
       THEN night \o <<"_">> \o obj_id \o <<"_", "b">> \o DOTFITS
       ELSE before

\* An iteration that ends in an exception leaving the function.
Raised == [raised |-> TRUE]

\* CubeIteration with the step loop left at the first step that cannot be
\* extracted, the cube being written with the tables built so far.
CubeIterationBreak(files, ob, stps, before) ==
  LET fits_files == FitsFiles(ob, stps)
      built == { n \in 0..Len(stps) :
                   \A i \in 1..n : Extractable(files, fits_files[i]) }
      k == CHOOSE n \in built : \A m \in built : m <= n
  IN  IF ~Readable(files, fits_files[1]) \/ k = 0 THEN Raised
      ELSE LET name == OutputFilename(before, ob,
                                      ObjId(Header(files, fits_files[1])))
           IN  IF name = Unbound THEN Raised
               ELSE [raised |-> FALSE,
                     output_filename |-> name,
                     output_filepath |-> Join(cube_out_dir, name),
                     hdu_list |-> [kind |-> "cube",
                                   hdus |-> Hdus(files, SubSeq(fits_files, 1, k),
                                                 SubSeq(stps, 1, k))]]

\* One iteration of "for ob in unique_obs": it raises, or writes hdu_list
\* to output_filepath and leaves output_filename behind.
CubeIteration(files, ob, stps, before) ==
  LET fits_files == FitsFiles(ob, stps)
  IN  IF ~Readable(files, fits_files[1]) THEN Raised
      ELSE IF \E i \in 1..Len(stps) : ~Extractable(files, fits_files[i])
      THEN Raised
      ELSE LET name == OutputFilename(before, ob,
                                      ObjId(Header(files, fits_files[1])))
           IN  IF name = Unbound THEN Raised
               ELSE [raised |-> FALSE,
                     output_filename |-> name,
                     output_filepath |-> Join(cube_out_dir, name),
                     hdu_list |-> [kind |-> "cube",
                                   hdus |-> Hdus(files, fits_files, stps)]]

\* What a call leaves for the next one to be compared with.
Snapshot == [call |-> call, found |-> found, fs |-> fs, status |-> status]

NoWrite(ob) == [ob |-> ob, wrote |-> FALSE]
Wrote(ob, path, art) == [ob |-> ob, wrote |-> TRUE, path |-> path, art |-> art]

\* Lines 92-104: make the output directory, list the files of the first
\* step in the order the listing returns them, strip the suffix.
CubeStart ==
  /\ pc = "idle"
  /\ runs < MaxRuns
  /\ \E order \in Orders(Glob(fs, steps[1])) :
        unique_obs' = [i \in 1..Len(order) |-> KeyOf(order[i], steps[1])]
  /\ found' = Glob(fs, steps[1])
  /\ dirs' = dirs \cup {cube_out_dir}
  /\ pc' = "cube"
  /\ call' = "cube"
  /\ output_filename' = Unbound
  /\ log' = {}
  /\ status' = "running"
  /\ prev' = Snapshot
  /\ runs' = runs + 1
  /\ UNCHANGED <<fs, steps, walk, filename>>

\* Lines 109-148 for the next observation; an exception ends the call.
CubeStep ==
  /\ pc = "cube"
  /\ unique_obs # <<>>
  /\ LET ob == Head(unique_obs)
         it == CubeIteration(fs, ob, steps, output_filename)
     IN  IF it.raised
         THEN /\ pc' = "idle"
              /\ status' = "raised"
              /\ unique_obs' = <<>>
              /\ output_filename' = Unbound
              /\ log' = log \cup {NoWrite(ob)}
              /\ fs' = fs
         ELSE /\ fs' = [p \in DOMAIN fs \cup {it.output_filepath} |->
                         IF p = it.output_filepath THEN it.hdu_list ELSE fs[p]]
              /\ output_filename' = it.output_filename
              /\ unique_obs' = Tail(unique_obs)
              /\ log' = log \cup {Wrote(ob, it.output_filepath, it.hdu_list)}
              /\ UNCHANGED <<pc, status>>
  /\ UNCHANGED <<dirs, steps, walk, filename, call, found, prev, runs>>

\* The loop is over: the function returns.
CubeReturn ==
  /\ pc = "cube"
  /\ unique_obs = <<>>
  /\ pc' = "idle"
  /\ status' = "returned"
  /\ output_filename' = Unbound
  /\ UNCHANGED <<fs, dirs, steps, unique_obs, walk, filename, call, found,
                 log, prev, runs>>

\* ----------------------------------- extract_stellar_spectra_ascii
ascii_out_dir == Join(data_dir, ASCII)

\* the elements of a list
Range(seq) == { seq[i] : i \in DOMAIN seq }

\* the files os.walk lists in directory d
FilesIn(files, d) ==
  { p \in DOMAIN files :
      /\ StartsWith(p, d \o <<"/">>)
      /\ Len(Split(SubSeq(p, Len(d) + 2, Len(p)), "/")) = 1 }

\* the directories os.walk lists in directory d
SubDirs(files, ds, d) ==
  { Join(d, Split(SubSeq(p, Len(d) + 2, Len(p)), "/")[1]) :
      p \in { q \in DOMAIN files :
                /\ StartsWith(q, d \o <<"/">>)
                /\ Len(Split(SubSeq(q, Len(d) + 2, Len(q)), "/")) > 1 }
            \cup { q \in ds : StartsWith(q, d \o <<"/">>) } }

\* fl.split(".")[-2][1:], defined when fl has a dot
StepOf(fl) ==
  LET parts == Split(fl, ".")
      part == parts[Len(parts) - 1]
  IN  SubSeq(part, 2, Len(part))

\* step in steps and fl.endswith('%s.fits' % step)
Selected(fl, stps) ==
  StepOf(fl) \in Range(stps) /\ EndsWith(fl, StepOf(fl) \o DOTFITS)

\* The if / elif on the arm marker in name, then the replace of spaces: with
\* neither marker the local keeps the value of the previous iteration.
Filename(before, name, objectid, step) ==
  LET chosen ==
        IF Contains(name, T2m3wr)
        THEN night \o <<"_">> \o objectid \o <<"_">> \o step \o <<"_", "r">> \o DOTDAT
        ELSE IF Contains(name, T2m3wb)
             THEN night \o <<"_">> \o objectid \o <<"_">> \o step \o <<"_", "b">> \o DOTDAT
             ELSE before
  IN  IF chosen = Unbound THEN Unbound ELSE Replace(chosen, <<" ">>, <<"_">>)

\* One iteration of "for name in files": it raises, passes over the file,
\* or writes the table of (wave, spectrum) to fln.
AsciiIteration(files, fl, stps, before) ==
  IF Len(Split(fl, ".")) < 2 THEN Raised
  ELSE IF ~Selected(fl, stps)
  THEN [raised |-> FALSE, selected |-> FALSE]
  ELSE IF ~Readable(files, fl) \/ ~Extractable(files, fl) THEN Raised
  ELSE LET name == Filename(before, Basename(fl),
                            Header(files, fl).OBJNAME, StepOf(fl))
       IN  IF name = Unbound THEN Raised
           ELSE [raised |-> FALSE, selected |-> TRUE,
                 filename |-> name,
                 fln |-> Join(ascii_out_dir, name),
                 table |-> [kind |-> "table", rows |-> Spectrum(files, fl)]]

\* Lines 32-38: make the output directory; os.walk starts at data_dir.
AsciiStart ==
  /\ pc = "idle"
  /\ runs < MaxRuns
  /\ dirs' = dirs \cup {ascii_out_dir}
  /\ walk' = [files |-> <<>>, pending |-> <<data_dir>>]
  /\ found' = {}
  /\ pc' = "ascii"
  /\ call' = "ascii"
  /\ filename' = Unbound
  /\ log' = {}
  /\ status' = "running"
  /\ prev' = Snapshot
  /\ runs' = runs + 1
  /\ UNCHANGED <<fs, steps, unique_obs, output_filename>>

\* os.walk, top down: the next pending directory is listed when the files
\* of the current one are done; its sub-directories are walked before the
\* directories that were already pending. A listing returns any order.
AsciiDescend ==
  /\ pc = "ascii"
  /\ walk.files = <<>>
  /\ walk.pending # <<>>
  /\ LET d == Head(walk.pending)
     IN  /\ \E fo \in Orders(FilesIn(fs, d)), so \in Orders(SubDirs(fs, dirs, d)) :
              walk' = [files |-> fo, pending |-> so \o Tail(walk.pending)]
         /\ found' = found \cup FilesIn(fs, d)
  /\ UNCHANGED <<fs, dirs, steps, pc, unique_obs, output_filename, filename,
                 call, log, status, prev, runs>>

\* Lines 43-70 for the next file; an exception ends the call.
AsciiStep ==
  /\ pc = "ascii"
  /\ walk.files # <<>>
  /\ LET fl == Head(walk.files)
         it == AsciiIteration(fs, fl, steps, filename)
     IN  IF it.raised
         THEN /\ pc' = "idle"
              /\ status' = "raised"
              /\ walk' = [files |-> <<>>, pending |-> <<>>]
              /\ filename' = Unbound
              /\ log' = log \cup {NoWrite(fl)}
              /\ fs' = fs
         ELSE /\ walk' = [walk EXCEPT !.files = Tail(walk.files)]
              /\ UNCHANGED <<pc, status>>
              /\ IF it.selected
                 THEN /\ fs' = [p \in DOMAIN fs \cup {it.fln} |->
                                 IF p = it.fln THEN it.table ELSE fs[p]]
                      /\ filename' = it.filename
                      /\ log' = log \cup {Wrote(fl, it.fln, it.table)}
                 ELSE /\ log' = log \cup {NoWrite(fl)}
                      /\ UNCHANGED <<fs, filename>>
  /\ UNCHANGED <<dirs, steps, unique_obs, output_filename, call, found, prev,
                 runs>>

\* The walk is over: the function returns.
AsciiReturn ==
  /\ pc = "ascii"
  /\ walk.files = <<>>
  /\ walk.pending = <<>>
  /\ pc' = "idle"
  /\ status' = "returned"
  /\ filename' = Unbound
  /\ UNCHANGED <<fs, dirs, steps, unique_obs, output_filename, walk, call,
                 found, log, prev, runs>>

\* ------------------------------------------------------ specification
\* The night directory holds at most MaxFiles of the files of Universe,
\* no output directory exists yet, and no entry point has been called.
Init ==
  /\ \E U \in SUBSET Universe :
        /\ Cardinality(U) <= MaxFiles
        /\ fs = [p \in { u.path : u \in U } |->
                   (CHOOSE u \in U : u.path = p).file]
  /\ dirs = {data_dir}
  /\ steps \in StepLists
  /\ pc = "idle"
  /\ unique_obs = <<>>
  /\ output_filename = Unbound
  /\ walk = [files |-> <<>>, pending |-> <<>>]
  /\ filename = Unbound
  /\ call = "none"
  /\ found = {}
  /\ log = {}
  /\ status = "none"
  /\ prev = [call |-> "none"]
  /\ runs = 0

Next ==
  \/ CubeStart
  \/ CubeStep
  \/ CubeReturn
  \/ AsciiStart
  \/ AsciiDescend
  \/ AsciiStep
  \/ AsciiReturn

Spec == Init /\ [][Next]_vars

\* Calls of make_extracted_stellar_cube alone.
NextCube ==
  \/ CubeStart
  \/ CubeStep
  \/ CubeReturn

SpecCube == Init /\ [][NextCube]_vars

\* Calls of extract_stellar_spectra_ascii alone.
NextAscii ==
  \/ AsciiStart
  \/ AsciiDescend
  \/ AsciiStep
  \/ AsciiReturn

SpecAscii == Init /\ [][NextAscii]_vars

\* ------------------------------------------------------------ properties
\* the step files of key ob, all present and extractable
Complete(ob) ==
  \A i \in 1..Len(steps) : Extractable(fs, ob \o Suffix(steps[i]))

\* s carries the red marker only / the blue marker only
RedOnly(s) == Contains(s, T2m3wr) /\ ~Contains(s, T2m3wb)
BlueOnly(s) == Contains(s, T2m3wb) /\ ~Contains(s, T2m3wr)

\* the entries of the log that wrote a file
Writes == { e \in log : e.wrote }

\* C1: every cube that make_extracted_stellar_cube writes is the header of
\* the key's first step-file followed by one table per configured step, the
\* i-th table extracted from the i-th step's file and tagged REDSTEP =
\* steps[i].
C1_CubeSections ==
  call = "cube" =>
    \A e \in Writes :
      LET hdus == e.art.hdus
      IN  /\ fs[e.path] \in { w.art : w \in Writes }
          /\ Len(hdus) = 1 + Len(steps)
          /\ DOMAIN hdus[1] = {"header"}
          /\ hdus[1].header = fs[e.ob \o Suffix(steps[1])].header
          /\ \A i \in 1..Len(steps) :
               /\ hdus[i + 1].rec = fs[e.ob \o Suffix(steps[i])].data
               /\ hdus[i + 1].REDSTEP = steps[i]

\* a cube has been written for a two-step list that is not in ascending order
C1_Witness ==
  /\ call = "cube"
  /\ steps = <<S09, S08>>
  /\ Writes # {}

\* C8: an iteration for a key one of whose step files is missing or cannot
\* be extracted leaves every file as it was, and an iteration that changes
\* the file system writes one cube of len(steps) tables.
C8_NoPartialCube ==
  [][ (pc = "cube" /\ unique_obs # <<>>) =>
        /\ ~Complete(Head(unique_obs)) => fs' = fs
        /\ fs' # fs =>
              \E p \in DOMAIN fs' :
                /\ \A q \in DOMAIN fs : q # p => fs'[q] = fs[q]
                /\ fs'[p].kind = "cube"
                /\ Len(fs'[p].hdus) = 1 + Len(steps) ]_vars

\* a call has ended on a key whose first step was extracted and whose second
\* step file is missing or corrupt, after which no cube holds that key
C8_Witness ==
  /\ call = "cube"
  /\ status = "raised"
  /\ Len(steps) = 2
  /\ \E e \in log :
        /\ ~e.wrote
        /\ Extractable(fs, e.ob \o Suffix(steps[1]))
        /\ ~Extractable(fs, e.ob \o Suffix(steps[2]))
        /\ \A p \in DOMAIN fs :
             fs[p].kind = "cube" =>
               fs[p].hdus[2].rec # fs[e.ob \o Suffix(steps[1])].data

\* C2: when a call of make_extracted_stellar_cube has ended, every discovered
\* key that carries one arm marker and whose step files are all present and
\* extractable has had its cube written, whatever happened to other keys.
C2_ErrorsIsolated ==
  (call = "cube" /\ pc = "idle") =>
    \A f \in found :
      LET k == KeyOf(f, steps[1])
      IN  (Complete(k) /\ (RedOnly(k) \/ BlueOnly(k))) =>
            \E e \in Writes : e.ob = k

\* the name the arm is read from: the key in make_extracted_stellar_cube,
\* the file name in extract_stellar_spectra_ascii
ArmName(ob) == IF call = "cube" THEN ob ELSE Basename(ob)

\* C3: in both entry points a name with exactly one arm marker gives an
\* output with that arm's suffix, and a name with neither marker or with
\* both gives no output.
C3_ChannelTotal ==
  \A e \in log :
    LET name == ArmName(e.ob)
        ext == IF call = "cube" THEN DOTFITS ELSE DOTDAT
    IN  /\ (e.wrote /\ RedOnly(name)) => EndsWith(e.path, <<"_", "r">> \o ext)
        /\ (e.wrote /\ BlueOnly(name)) => EndsWith(e.path, <<"_", "b">> \o ext)
        /\ (~RedOnly(name) /\ ~BlueOnly(name)) => ~e.wrote

\* C4: within one call no two distinct observations (matched files), each
\* with one arm marker in its name, write to the same output path.
C4_OneWriterPerPath ==
  \A e1, e2 \in Writes :
    ( /\ e1.ob # e2.ob
      /\ RedOnly(ArmName(e1.ob)) \/ BlueOnly(ArmName(e1.ob))
      /\ RedOnly(ArmName(e2.ob)) \/ BlueOnly(ArmName(e2.ob)) )
    => e1.path # e2.path

\* C5: the cube of a key with one arm marker is written to
\* root/night/extracted_cubes_1d/<night>_<object-id>_<r|b>.fits, every space
\* of the OBJNAME of the first step file replaced by an underscore.
C5_CubePath ==
  call = "cube" =>
    \A e \in Writes :
      (RedOnly(e.ob) \/ BlueOnly(e.ob)) =>
        e.path =
          Join(Join(Join(root, night), EXTRACTED),
               night \o <<"_">>
                 \o Replace(fs[e.ob \o Suffix(steps[1])].header.OBJNAME,
                            <<" ">>, <<"_">>)
                 \o <<"_">>
                 \o (IF RedOnly(e.ob) THEN <<"r">> ELSE <<"b">>)
                 \o DOTFITS)

\* C6: when a call of make_extracted_stellar_cube has returned, every file
\* at any depth below root/night whose name ends in .p<steps[0]>.fits has
\* had its key processed.
C6_RecursiveDiscovery ==
  (call = "cube" /\ status = "returned") =>
    \A p \in DOMAIN fs :
      (Below(p) # <<>> /\ EndsWith(Basename(p), Suffix(steps[1]))) =>
        \E e \in log : e.ob = SubSeq(p, 1, Len(p) - Len(Suffix(steps[1])))

\* the cube files, each with the REDSTEP tags of its tables
CubeStructure(files) ==
  [p \in { q \in DOMAIN files : files[q].kind = "cube" } |->
     [i \in 1..(Len(files[p].hdus) - 1) |-> files[p].hdus[i + 1].REDSTEP]]

\* C7: after two calls of make_extracted_stellar_cube in succession the
\* second call has discovered the files the first discovered, and the cube
\* paths and their section structure are those the first call left.
C7_Idempotent ==
  (call = "cube" /\ pc = "idle" /\ prev.call = "cube") =>
    /\ found = prev.found
    /\ CubeStructure(fs) = CubeStructure(prev.fs)

\* the pattern of the claim on a file: its second-to-last dot-delimited
\* component, less its first letter, is a step, and it ends in <step>.fits
Matches(p) == Len(Split(p, ".")) >= 2 /\ Selected(p, steps)

\* C9: when a call of extract_stellar_spectra_ascii has ended, a table has
\* been written for every file below root/night that matches the steps and
\* has one arm marker, for no file that does not match, and the table is
\* root/night/ascii/<night>_<object-id>_<step>_<r|b>.dat, spaces replaced by
\* underscores, with the object, step and arm of that file.
C9_AsciiTables ==
  (call = "ascii" /\ pc = "idle") =>
    /\ \A p \in DOMAIN fs :
         ( /\ Below(p) # <<>>
           /\ Matches(p)
           /\ RedOnly(Basename(p)) \/ BlueOnly(Basename(p)) )
         => \E e \in Writes : e.ob = p
    /\ \A e \in Writes :
         LET name == Basename(e.ob)
         IN  /\ Matches(e.ob)
             /\ (RedOnly(name) \/ BlueOnly(name)) =>
                   e.path =
                     Join(Join(Join(root, night), ASCII),
                          Replace(night \o <<"_">> \o fs[e.ob].header.OBJNAME
                                    \o <<"_">> \o StepOf(e.ob) \o <<"_">>
                                    \o (IF RedOnly(name) THEN <<"r">> ELSE <<"b">>)
                                    \o DOTDAT,
                                  <<" ">>, <<"_">>))

\* C10: every discovered file is its key with .p<steps[0]>.fits appended
\* again, and two discovered files have the same key only if they are the
\* same file.
C10_KeyRoundTrip ==
  call = "cube" =>
    /\ \A f \in found : KeyOf(f, steps[1]) \o Suffix(steps[1]) = f
    /\ \A f, g \in found :
         KeyOf(f, steps[1]) = KeyOf(g, steps[1]) => f = g

====
